---- MODULE Spec2Model ----
(***************************************************************************)
(* Model of src/react/canvas_ux.tsx: the Canvas component's subscriptions  *)
(* to the shared tree, the Fluid container and the audience, the setter    *)
(* callbacks its handlers invoke, and the element lists built by           *)
(* ConferenceView and DaysView.                                            *)
(***************************************************************************)
EXTENDS Integers, Sequences, FiniteSets, TLC

VARIABLES
    container,          \* props.container: connectionState, isDirty, disposed
    audience,           \* props.audience: getMyself(), getMembers()
    connectionState,    \* value last passed to props.setConnectionState
    saved,              \* value last passed to props.setSaved
    currentUser,        \* value last passed to props.setCurrentUser (props.currentUser of the next render)
    fluidMembers,       \* value last passed to props.setFluidMembers
    treeListeners,      \* handlers registered with Tree.on(root, "treeChanged")
    containerListeners, \* handlers registered with container.on, per event
    audienceListeners,  \* handlers registered with audience.on("membersChanged")
    mounted,            \* the mounted Canvas instance, 0 when none is mounted
    instances,          \* number of Canvas instances mounted so far
    calls,              \* setter calls made during the last step, in order
    last,               \* the last step: its event and how often it was delivered in a row
    conference,         \* props.conference of the views: sessions and days
    view                \* the element returned by the last render of a view

vars == <<container, audience, connectionState, saved, currentUser, fluidMembers,
          treeListeners, containerListeners, audienceListeners,
          mounted, instances, calls, last, conference, view>>

canvasVars == <<container, audience, connectionState, saved, currentUser, fluidMembers,
                treeListeners, containerListeners, audienceListeners,
                mounted, instances, calls, last>>

viewVars == <<conference, view>>

---------------------------------------------------------------------------
(* Bounds *)

MaxMounts == 2      \* Canvas instances mounted over a behaviour
MaxRandom == 1      \* Math.random() draws from 0..MaxRandom
MaxRepeat == 2      \* consecutive deliveries of one notification
MaxSessions == 3    \* sessions of a conference
MaxDays == 3        \* days of a conference

---------------------------------------------------------------------------
(* JavaScript values *)

\* An optional value: None is undefined, Some(v) is the value v.
None == << >>
Some(v) == <<v>>
IsUndefined(o) == o = None
Get(o) == o[1]

UndefinedUserId == "<undefined>"    \* a member whose userId field is undefined
NumericUserId == "<number>"         \* a userId that is defined but is not a string
UserIds == {"alice", "bob"}

TypeOf(v) ==
    IF v = UndefinedUserId THEN "undefined"
    ELSE IF v = NumericUserId THEN "number"
    ELSE "string"

undefinedUserId == "[UNDEFINED]"

ConnectionStates == {"Disconnected", "EstablishingConnection", "CatchingUp", "Connected"}

ContainerEvents == {"connected", "disconnected", "dirty", "saved", "disposed"}

\* IMember values and the audience's member map (a Map keeps insertion order
\* and holds each key once).
\* What getMyself() may hold for the local user: a member record whose userId
\* is not yet set, is the user's id, or is not a string.
Myself == "alice"
Members == {[userId |-> u] : u \in {Myself, UndefinedUserId, NumericUserId}}

RECURSIVE DistinctSeqs(_)
DistinctSeqs(S) ==
    IF S = {} THEN {<< >>}
    ELSE {<< >>} \cup UNION {{<<x>> \o s : s \in DistinctSeqs(S \ {x})} : x \in S}

Entry(k) == [key |-> k, value |-> [userId |-> k]]

MemberMaps == {[i \in 1..Len(ks) |-> Entry(ks[i])] : ks \in DistinctSeqs(UserIds)}

\* Map.prototype.keys() followed by Array.from
Keys(m) == [i \in 1..Len(m) |-> m[i].key]

Audiences == [myself : {None} \cup {Some(m) : m \in Members},
              members : {None} \cup {Some(m) : m \in MemberMaps}]

---------------------------------------------------------------------------
(* Setter callbacks: the parent's state setters.  p is the parent's state   *)
(* together with the calls made so far in the step.                        *)

Call(owner, setter, arg) == [owner |-> owner, setter |-> setter, arg |-> arg]

setConnectionState(p, owner, arg) ==
    [p EXCEPT !.connectionState = arg,
              !.calls = Append(@, Call(owner, "setConnectionState", arg))]

setSaved(p, owner, arg) ==
    [p EXCEPT !.saved = arg,
              !.calls = Append(@, Call(owner, "setSaved", arg))]

setCurrentUser(p, owner, arg) ==
    [p EXCEPT !.currentUser = arg,
              !.calls = Append(@, Call(owner, "setCurrentUser", arg))]

setFluidMembers(p, owner, arg) ==
    [p EXCEPT !.fluidMembers = arg,
              !.calls = Append(@, Call(owner, "setFluidMembers", arg))]

\* The parent's state at the start of a step, no call made yet.
Parent ==
    [connectionState |-> connectionState, saved |-> saved,
     currentUser |-> currentUser, fluidMembers |-> fluidMembers, calls |-> << >>]

Publish(p) ==
    /\ connectionState' = p.connectionState
    /\ saved' = p.saved
    /\ currentUser' = p.currentUser
    /\ fluidMembers' = p.fluidMembers
    /\ calls' = p.calls

---------------------------------------------------------------------------
(* Handlers.  h is the registered closure: its owner (the Canvas instance   *)
(* whose effect registered it) and the props of the render it closed over; *)
(* c and a are the container and the audience as they are when it runs.    *)

updateConnectionState_SwappedLabels(h, c, a, p) ==
    IF c.connectionState = "Connected" THEN
        setConnectionState(p, h.owner, "connected")
    ELSE IF c.connectionState = "Disconnected" THEN
        setConnectionState(p, h.owner, "disconnected")
    ELSE IF c.connectionState = "EstablishingConnection" THEN
        setConnectionState(p, h.owner, "catching up")
    ELSE IF c.connectionState = "CatchingUp" THEN
        setConnectionState(p, h.owner, "connecting")
    ELSE p

updateConnectionState(h, c, a, p) ==
    IF c.connectionState = "Connected" THEN
        setConnectionState(p, h.owner, "connected")
    ELSE IF c.connectionState = "Disconnected" THEN
        setConnectionState(p, h.owner, "disconnected")
    ELSE IF c.connectionState = "EstablishingConnection" THEN
        setConnectionState(p, h.owner, "connecting")
    ELSE IF c.connectionState = "CatchingUp" THEN
        setConnectionState(p, h.owner, "catching up")
    ELSE p

onDirty(h, c, a, p) == setSaved(p, h.owner, FALSE)

onSaved_SetsFalse(h, c, a, p) == setSaved(p, h.owner, FALSE)

onSaved(h, c, a, p) == setSaved(p, h.owner, TRUE)

\* updateMembers returning right after it has set the current user.
updateMembers_ReturnAfterUser(h, c, a, p) ==
    IF IsUndefined(a.myself) THEN p
    ELSE IF Get(a.myself).userId = UndefinedUserId THEN p
    ELSE IF IsUndefined(a.members) THEN p
    ELSE IF c.connectionState # "Connected" THEN p
    ELSE IF h.props.currentUser = undefinedUserId
            /\ TypeOf(Get(a.myself).userId) = "string"
         THEN setCurrentUser(p, h.owner, Get(a.myself).userId)
         ELSE setFluidMembers(p, h.owner, Keys(Get(a.members)))

\* updateMembers adding the keys to the list already published.
updateMembers_Appends(h, c, a, p) ==
    IF IsUndefined(a.myself) THEN p
    ELSE IF Get(a.myself).userId = UndefinedUserId THEN p
    ELSE IF IsUndefined(a.members) THEN p
    ELSE IF c.connectionState # "Connected" THEN p
    ELSE
        LET p1 ==
                IF h.props.currentUser = undefinedUserId THEN
                    LET user == Get(a.myself).userId IN
                    IF TypeOf(user) = "string"
                    THEN setCurrentUser(p, h.owner, user)
                    ELSE p
                ELSE p
        IN setFluidMembers(p1, h.owner, p.fluidMembers \o Keys(Get(a.members)))

\* updateMembers without the check of the connection state.
updateMembers_NoConnectionGuard(h, c, a, p) ==
    IF IsUndefined(a.myself) THEN p
    ELSE IF Get(a.myself).userId = UndefinedUserId THEN p
    ELSE IF IsUndefined(a.members) THEN p
    ELSE
        LET p1 ==
                IF h.props.currentUser = undefinedUserId THEN
                    LET user == Get(a.myself).userId IN
                    IF TypeOf(user) = "string"
                    THEN setCurrentUser(p, h.owner, user)
                    ELSE p
                ELSE p
        IN setFluidMembers(p1, h.owner, Keys(Get(a.members)))

updateMembers(h, c, a, p) ==
    IF IsUndefined(a.myself) THEN p
    ELSE IF Get(a.myself).userId = UndefinedUserId THEN p
    ELSE IF IsUndefined(a.members) THEN p
    ELSE IF c.connectionState # "Connected" THEN p
    ELSE
        LET p1 ==
                IF h.props.currentUser = undefinedUserId THEN
                    LET user == Get(a.myself).userId IN
                    IF TypeOf(user) = "string"
                    THEN setCurrentUser(p, h.owner, user)
                    ELSE p
                ELSE p
        IN setFluidMembers(p1, h.owner, Keys(Get(a.members)))

Handler(owner, fn, props) == [owner |-> owner, fn |-> fn, props |-> props]

Invoke(h, c, a, p) ==
    CASE h.fn = "updateConnectionState" -> updateConnectionState(h, c, a, p)
      [] h.fn = "onDirty" -> onDirty(h, c, a, p)
      [] h.fn = "onSaved" -> onSaved(h, c, a, p)
      [] h.fn = "updateMembers" -> updateMembers(h, c, a, p)

\* EventEmitter.emit: the listeners of the event run in registration order.
RECURSIVE Emit(_, _, _, _)
Emit(hs, c, a, p) ==
    IF hs = << >> THEN p
    ELSE Emit(Tail(hs), c, a, Invoke(Head(hs), c, a, p))

Listeners(event) ==
    IF event = "membersChanged" THEN audienceListeners ELSE containerListeners[event]

RemoveOwner(hs, owner) == SelectSeq(hs, LAMBDA h : h.owner # owner)

Step(event) == [event |-> event, times |-> 1]

---------------------------------------------------------------------------
(* Canvas *)

\* The three effects of Canvas, run once after the first render of an instance.
Mount ==
    /\ mounted = 0
    /\ instances < MaxMounts
    /\ LET inst == instances + 1
           props == [currentUser |-> currentUser]
           ucs == Handler(inst, "updateConnectionState", props)
           p == setSaved(updateConnectionState(ucs, container, audience, Parent),
                         inst, ~container.isDirty)
       IN /\ instances' = inst
          /\ mounted' = inst
          /\ treeListeners' = Append(treeListeners, [owner |-> inst, invalidations |-> 0])
          /\ Publish(p)
          /\ containerListeners' =
                [e \in ContainerEvents |->
                    Append(containerListeners[e],
                           CASE e = "connected" -> ucs
                             [] e = "disconnected" -> ucs
                             [] e = "dirty" -> Handler(inst, "onDirty", props)
                             [] e = "saved" -> Handler(inst, "onSaved", props)
                             [] e = "disposed" -> ucs)]
          /\ audienceListeners' =
                Append(audienceListeners, Handler(inst, "updateMembers", props))
    /\ last' = Step("mount")
    /\ UNCHANGED <<container, audience>>

\* The cleanup functions the effects returned.
Unmount ==
    /\ mounted # 0
    /\ treeListeners' = RemoveOwner(treeListeners, mounted)
    /\ audienceListeners' = RemoveOwner(audienceListeners, mounted)
    /\ mounted' = 0
    /\ calls' = << >>
    /\ last' = Step("unmount")
    /\ UNCHANGED <<container, audience, connectionState, saved, currentUser,
                   fluidMembers, containerListeners, instances>>

---------------------------------------------------------------------------
(* Notification sources *)

\* The shared tree changes; its "treeChanged" listeners run, each calling
\* setInvalidations (Canvas' own useState setter) with the invalidations of
\* the render it closed over plus Math.random().
TreeChanged(random) ==
    /\ calls' = [i \in 1..Len(treeListeners) |->
                    Call(treeListeners[i].owner, "setInvalidations",
                         treeListeners[i].invalidations + random)]
    /\ last' = Step("treeChanged")
    /\ UNCHANGED <<container, audience, connectionState, saved, currentUser,
                   fluidMembers, treeListeners, containerListeners,
                   audienceListeners, mounted, instances>>

\* The container's connection state changes.  The container emits "connected"
\* on becoming Connected and "disconnected" on becoming Disconnected.
ConnectionChange(s) ==
    /\ ~container.disposed
    /\ s # container.connectionState
    /\ LET c == [container EXCEPT !.connectionState = s]
           event == IF s = "Connected" THEN "connected"
                    ELSE IF s = "Disconnected" THEN "disconnected"
                    ELSE "none"
       IN /\ container' = c
          /\ Publish(IF event = "none" THEN Parent
                     ELSE Emit(containerListeners[event], c, audience, Parent))
          /\ last' = Step(event)
    /\ UNCHANGED <<audience, treeListeners, containerListeners,
                   audienceListeners, mounted, instances>>

\* The container gets a local change that is not yet acknowledged: "dirty".
BecomeDirty ==
    /\ ~container.disposed
    /\ ~container.isDirty
    /\ LET c == [container EXCEPT !.isDirty = TRUE]
       IN /\ container' = c
          /\ Publish(Emit(containerListeners["dirty"], c, audience, Parent))
    /\ last' = Step("dirty")
    /\ UNCHANGED <<audience, treeListeners, containerListeners,
                   audienceListeners, mounted, instances>>

\* All local changes are acknowledged: "saved".
BecomeSaved ==
    /\ ~container.disposed
    /\ container.isDirty
    /\ LET c == [container EXCEPT !.isDirty = FALSE]
       IN /\ container' = c
          /\ Publish(Emit(containerListeners["saved"], c, audience, Parent))
    /\ last' = Step("saved")
    /\ UNCHANGED <<audience, treeListeners, containerListeners,
                   audienceListeners, mounted, instances>>

\* The container is disposed: it disconnects and emits "disposed".
Dispose ==
    /\ ~container.disposed
    /\ LET c == [container EXCEPT !.disposed = TRUE, !.connectionState = "Disconnected"]
       IN /\ container' = c
          /\ Publish(Emit(containerListeners["disposed"], c, audience, Parent))
    /\ last' = Step("disposed")
    /\ UNCHANGED <<audience, treeListeners, containerListeners,
                   audienceListeners, mounted, instances>>

\* One change of the audience: the local member appears, disappears or gets
\* its userId, the member map appears, or a member joins or leaves.
AudienceChanges(a) ==
    {[a EXCEPT !.myself = m] : m \in {None} \cup {Some(x) : x \in Members}}
    \cup {[a EXCEPT !.members = m] : m \in {None, Some(<< >>)}}
    \cup (IF IsUndefined(a.members) THEN {}
          ELSE LET m == Get(a.members)
                   present == {m[i].key : i \in 1..Len(m)}
               IN {[a EXCEPT !.members = Some(Append(m, Entry(k)))] :
                        k \in UserIds \ present}
                  \cup {[a EXCEPT !.members =
                                    Some(SelectSeq(m, LAMBDA e : e.key # k))] :
                        k \in present})

\* The audience changes and emits "membersChanged".
MembersChanged(a) ==
    /\ a # audience
    /\ audience' = a
    /\ Publish(Emit(audienceListeners, container, a, Parent))
    /\ last' = Step("membersChanged")
    /\ UNCHANGED <<container, treeListeners, containerListeners,
                   audienceListeners, mounted, instances>>

\* A spurious duplicate: the notification just delivered is delivered again,
\* the container and the audience being as they were.
Redeliver ==
    /\ last.event \in ContainerEvents \cup {"membersChanged"}
    /\ last.times < MaxRepeat
    /\ Publish(Emit(Listeners(last.event), container, audience, Parent))
    /\ last' = [last EXCEPT !.times = @ + 1]
    /\ UNCHANGED <<container, audience, treeListeners,
                   containerListeners, audienceListeners, mounted, instances>>

---------------------------------------------------------------------------
(* ConferenceView and DaysView *)

SessionIds == {"s" \o ToString(i) : i \in 1..MaxSessions}

Session(id) == [id |-> id]

\* The conferences the views are rendered for: any list of distinct
\* unscheduled sessions, and up to MaxDays days, each empty or holding a session.
Conferences ==
    {[sessions |-> [i \in 1..Len(ids) |-> Session(ids[i])],
      days |-> [k \in 1..n |-> IF k \in full
                               THEN <<Session("d" \o ToString(k))>>
                               ELSE << >>]] :
        ids \in DistinctSeqs(SessionIds), n \in 0..MaxDays, full \in SUBSET (1..MaxDays)}

\* A JSX element: its component or tag, its key, its props and its children.
Element(type, key, props, children) ==
    [type |-> type, key |-> key, props |-> props, children |-> children]

\* Tree.key of the child at (1-based) position i of an array node: its index.
TreeKey(i) == i - 1

\* The props Canvas hands to ConferenceView, which hands them on to DaysView.
ViewProps ==
    [conference |-> conference, clientId |-> currentUser,
     clientSession |-> "clientSession", fluidMembers |-> fluidMembers]

DaysView_ZeroBasedTitle(props) ==
    LET days == props.conference.days
        dayArray ==
            [i \in 1..Len(days) |->
                Element("SessionsView", Some(TreeKey(i)),
                        [sessions |-> days[i],
                         clientSession |-> props.clientSession,
                         clientId |-> props.clientId,
                         fluidMembers |-> props.fluidMembers,
                         title |-> "Day " \o ToString(TreeKey(i))],
                        << >>)]
    IN Element("Fragment", None, << >>, dayArray)

DaysView(props) ==
    LET days == props.conference.days
        dayArray ==
            [i \in 1..Len(days) |->
                Element("SessionsView", Some(TreeKey(i)),
                        [sessions |-> days[i],
                         clientSession |-> props.clientSession,
                         clientId |-> props.clientId,
                         fluidMembers |-> props.fluidMembers,
                         title |-> "Day " \o ToString(TreeKey(i) + 1)],
                        << >>)]
    IN Element("Fragment", None, << >>, dayArray)

\* sessionArray is built and is not part of the element returned.
ConferenceView(props) ==
    LET sessions == props.conference.sessions
        sessionArray ==
            [i \in 1..Len(sessions) |->
                Element("RootSessionWrapper", Some(sessions[i].id),
                        [session |-> sessions[i],
                         clientId |-> props.clientId,
                         clientSession |-> props.clientSession,
                         fluidMembers |-> props.fluidMembers],
                        << >>)]
    IN Element("div", None, << >>,
               << Element("div", None, << >>,
                          << Element("SessionsView", None,
                                     [sessions |-> sessions,
                                      title |-> "Unscheduled",
                                      conference |-> props.conference,
                                      clientId |-> props.clientId,
                                      clientSession |-> props.clientSession,
                                      fluidMembers |-> props.fluidMembers],
                                     << >>) >>),
                  Element("div", None, << >>,
                          << Element("DaysView", None, props, << >>) >>),
                  Element("div", None, << >>, << >>) >>)

RenderConferenceView ==
    /\ view' = [component |-> "ConferenceView", element |-> ConferenceView(ViewProps)]
    /\ UNCHANGED conference

RenderDaysView ==
    /\ view' = [component |-> "DaysView", element |-> DaysView(ViewProps)]
    /\ UNCHANGED conference

---------------------------------------------------------------------------
(* Specifications *)

EmptyConference == [sessions |-> << >>, days |-> << >>]
NoView == [component |-> "none", element |-> Element("none", None, << >>, << >>)]

Init ==
    /\ container \in [connectionState : ConnectionStates, isDirty : BOOLEAN,
                      disposed : {FALSE}]
    /\ audience \in Audiences
    /\ connectionState = ""
    /\ saved = FALSE
    /\ currentUser = undefinedUserId
    /\ fluidMembers = << >>
    /\ treeListeners = << >>
    /\ containerListeners = [e \in ContainerEvents |-> << >>]
    /\ audienceListeners = << >>
    /\ mounted = 0
    /\ instances = 0
    /\ calls = << >>
    /\ last = Step("none")
    /\ conference = EmptyConference
    /\ view = NoView

Next ==
    \/ Mount /\ UNCHANGED viewVars
    \/ Unmount /\ UNCHANGED viewVars
    \/ \E random \in 0..MaxRandom : TreeChanged(random) /\ UNCHANGED viewVars
    \/ \E s \in ConnectionStates : ConnectionChange(s) /\ UNCHANGED viewVars
    \/ BecomeDirty /\ UNCHANGED viewVars
    \/ BecomeSaved /\ UNCHANGED viewVars
    \/ Dispose /\ UNCHANGED viewVars
    \/ \E a \in AudienceChanges(audience) : MembersChanged(a) /\ UNCHANGED viewVars

Spec == Init /\ [][Next]_vars

NextDup == Next \/ (Redeliver /\ UNCHANGED viewVars)

DupSpec == Init /\ [][NextDup]_vars

\* The views rendered for every conference of the bounded set.
RenderInit ==
    /\ container = [connectionState |-> "Connected", isDirty |-> FALSE,
                    disposed |-> FALSE]
    /\ audience = [myself |-> None, members |-> None]
    /\ connectionState = ""
    /\ saved = FALSE
    /\ currentUser = undefinedUserId
    /\ fluidMembers = << >>
    /\ treeListeners = << >>
    /\ containerListeners = [e \in ContainerEvents |-> << >>]
    /\ audienceListeners = << >>
    /\ mounted = 0
    /\ instances = 0
    /\ calls = << >>
    /\ last = Step("none")
    /\ conference \in Conferences
    /\ view = NoView

RenderNext ==
    \/ RenderConferenceView /\ UNCHANGED canvasVars
    \/ RenderDaysView /\ UNCHANGED canvasVars

RenderSpec == RenderInit /\ [][RenderNext]_vars

---------------------------------------------------------------------------
(* Properties *)

CallsOf(cs, setter) == SelectSeq(cs, LAMBDA c : c.setter = setter)

PropSetters == {"setConnectionState", "setSaved", "setCurrentUser", "setFluidMembers"}

\* The label each connection state is to be shown with.
LabelOf(s) ==
    CASE s = "Connected" -> "connected"
      [] s = "Disconnected" -> "disconnected"
      [] s = "EstablishingConnection" -> "connecting"
      [] s = "CatchingUp" -> "catching up"

\* The guards of a membership update: the local member is defined and has a
\* userId, the member map is defined, the container is connected.
GuardsPass(c, a) ==
    /\ ~IsUndefined(a.myself)
    /\ Get(a.myself).userId # UndefinedUserId
    /\ ~IsUndefined(a.members)
    /\ c.connectionState = "Connected"

\* C1: every handler registered on the tree, the container or the audience
\* belongs to the mounted Canvas instance (none is left when no instance is
\* mounted), and every call of one of the four setters made by a notification
\* is made by a handler of the mounted instance.
C1_SubscriptionsReleased ==
    /\ \A i \in DOMAIN treeListeners : treeListeners[i].owner = mounted
    /\ \A e \in ContainerEvents : \A i \in DOMAIN containerListeners[e] :
            containerListeners[e][i].owner = mounted
    /\ \A i \in DOMAIN audienceListeners : audienceListeners[i].owner = mounted
    /\ \A i \in DOMAIN calls :
            calls[i].setter \in PropSetters => calls[i].owner = mounted

\* C2: each invocation of updateConnectionState (one at mount, one per handler
\* registered for a delivered "connected", "disconnected" or "disposed") calls
\* setConnectionState exactly once, with the label of the container's
\* connection state at that moment: Connected "connected", Disconnected
\* "disconnected", EstablishingConnection "connecting", CatchingUp "catching up".
C2_ConnectionStateMapping ==
    LET invocations ==
            IF last.event = "mount" THEN 1
            ELSE IF last.event \in {"connected", "disconnected", "disposed"}
                 THEN Len(containerListeners[last.event])
                 ELSE 0
        made == CallsOf(calls, "setConnectionState")
    IN /\ Len(made) = invocations
       /\ \A i \in DOMAIN made : made[i].arg = LabelOf(container.connectionState)
       /\ invocations > 0 => connectionState = LabelOf(container.connectionState)

C2_Witness ==
    /\ last.event = "mount"
    /\ container.connectionState = "CatchingUp"
    /\ connectionState = "catching up"
    /\ Len(CallsOf(calls, "setConnectionState")) = 1

\* C3: a membership-change notification invokes setCurrentUser at most once,
\* and only when the current user is the sentinel undefinedUserId and the
\* audience's own member has a string userId.
C3_SetCurrentUserOnlyWhenUndefined ==
    [][last'.event = "membersChanged" =>
        LET made == CallsOf(calls', "setCurrentUser")
        IN /\ Len(made) <= 1
           /\ Len(made) > 0 =>
                /\ currentUser = undefinedUserId
                /\ ~IsUndefined(audience'.myself)
                /\ TypeOf(Get(audience'.myself).userId) = "string"]_vars

\* C4 as stated: after every membership-change notification delivered while
\* Canvas is mounted, the published member list is the list of keys of the
\* audience's member map.
C4_MembersRefreshedOnEveryChange ==
    (last.event = "membersChanged" /\ mounted # 0 /\ ~IsUndefined(audience.members))
        => fluidMembers = Keys(Get(audience.members))

\* C4: after a membership-change notification delivered while Canvas is
\* mounted and on which the guards of updateMembers pass, setFluidMembers has
\* been called once and the published member list holds exactly the keys of
\* the audience's member map, none repeated.
C4_MembersRefreshedWhenGuardsPass ==
    (last.event = "membersChanged" /\ mounted # 0 /\ GuardsPass(container, audience))
        => LET m == Get(audience.members)
           IN /\ Len(CallsOf(calls, "setFluidMembers")) = 1
              /\ Len(fluidMembers) = Len(m)
              /\ \A i \in DOMAIN m : fluidMembers[i] = m[i].key
              /\ \A i, j \in DOMAIN fluidMembers :
                    fluidMembers[i] = fluidMembers[j] => i = j

C4_Witness ==
    /\ last.event = "membersChanged"
    /\ mounted # 0
    /\ GuardsPass(container, audience)
    /\ Len(Get(audience.members)) = 2
    /\ fluidMembers = <<"bob", "alice">>

\* C5: the element ConferenceView returns holds one RootSessionWrapper per
\* session, in order, keyed by the session's id; DaysView returns one child per
\* day, in day order, keyed by the day's key, no key used twice.
RECURSIVE Flatten(_)
Flatten(es) ==
    IF es = << >> THEN << >>
    ELSE <<Head(es)>> \o Flatten(Head(es).children) \o Flatten(Tail(es))

C5_OneChildPerElement ==
    /\ view.component = "ConferenceView" =>
        LET wrappers == SelectSeq(Flatten(<<view.element>>),
                                  LAMBDA e : e.type = "RootSessionWrapper")
        IN /\ Len(wrappers) = Len(conference.sessions)
           /\ \A i \in DOMAIN wrappers :
                wrappers[i].key = Some(conference.sessions[i].id)
    /\ view.component = "DaysView" =>
        LET children == view.element.children
        IN /\ Len(children) = Len(conference.days)
           /\ \A i \in DOMAIN children :
                /\ children[i].key = Some(TreeKey(i))
                /\ children[i].props.sessions = conference.days[i]
           /\ \A i, j \in DOMAIN children :
                children[i].key = children[j].key => i = j

\* C6: DaysView titles the day at zero-based position k "Day " followed by
\* k+1: a conference with D days shows Day 1 .. Day D, each once, in order.
C6_DayLabelsOneBased ==
    view.component = "DaysView" =>
        LET children == view.element.children
            D == Len(conference.days)
        IN /\ Len(children) = D
           /\ \A i \in 1..D :
                /\ children[i].key = Some(i - 1)
                /\ children[i].props.title = "Day " \o ToString(i)
           /\ D >= 1 => children[1].props.title = "Day 1"
           /\ D >= 2 => children[2].props.title = "Day 2"
           /\ \A i, j \in 1..D :
                children[i].props.title = children[j].props.title => i = j

C6_Witness ==
    /\ view.component = "DaysView"
    /\ Len(conference.days) = 3
    /\ Len(view.element.children) = 3
    /\ view.element.children[3].props.title = "Day 3"
    /\ view.element.children[3].key = Some(2)

\* C7: delivering a container or membership-change notification again, the
\* container and the audience unchanged, leaves the values last passed to
\* setConnectionState, setSaved, setCurrentUser and setFluidMembers as they
\* were after the first delivery.
C7_DuplicateNotificationIdempotent ==
    [][last'.times > last.times =>
        <<connectionState, saved, currentUser, fluidMembers>>'
            = <<connectionState, saved, currentUser, fluidMembers>>]_vars

C7_Witness ==
    /\ last.event = "membersChanged"
    /\ last.times = 2
    /\ Len(CallsOf(calls, "setCurrentUser")) = 1
    /\ Len(CallsOf(calls, "setFluidMembers")) = 1
    /\ Len(fluidMembers) = 2

\* C8: while Canvas is mounted the saved flag is the negation of the
\* container's isDirty; the mount calls setSaved once with that negation, a
\* "dirty" notification calls setSaved(false), a "saved" notification calls
\* setSaved(true), and no other notification calls setSaved.
C8_SavedMirrorsDirty ==
    LET made == CallsOf(calls, "setSaved")
    IN /\ mounted # 0 => saved = ~container.isDirty
       /\ last.event = "mount" =>
            Len(made) = 1 /\ made[1].arg = ~container.isDirty
       /\ last.event = "dirty" =>
            /\ Len(made) = Len(containerListeners["dirty"])
            /\ \A i \in DOMAIN made : made[i].arg = FALSE
       /\ last.event = "saved" =>
            /\ Len(made) = Len(containerListeners["saved"])
            /\ \A i \in DOMAIN made : made[i].arg = TRUE
       /\ last.event \notin {"mount", "dirty", "saved"} => Len(made) = 0

C8_Witness ==
    /\ mounted # 0
    /\ last.event = "saved"
    /\ saved
    /\ ~container.isDirty
    /\ Len(CallsOf(calls, "setSaved")) = 1

\* C9: while Canvas is mounted (every notification the container emitted
\* having been delivered), the published label is the label of the
\* container's current connection state.
C9_LabelReflectsConnectionState ==
    mounted # 0 => connectionState = LabelOf(container.connectionState)

\* C10: on a membership-change notification setCurrentUser and
\* setFluidMembers are invoked only if the guards pass; when a guard fails no
\* setter is called and the published current user and member list stay.
C10_MembershipUpdatesGated ==
    [][last'.event = "membersChanged" =>
        LET pass == GuardsPass(container', audience')
        IN /\ (Len(CallsOf(calls', "setCurrentUser")) > 0
                \/ Len(CallsOf(calls', "setFluidMembers")) > 0) => pass
           /\ ~pass =>
                /\ Len(calls') = 0
                /\ currentUser' = currentUser
                /\ fluidMembers' = fluidMembers]_vars

C10_Witness ==
    /\ last.event = "membersChanged"
    /\ mounted # 0
    /\ Len(calls) = 0
    /\ container.connectionState = "Disconnected"
    /\ ~IsUndefined(audience.myself)
    /\ Get(audience.myself).userId = Myself
    /\ ~IsUndefined(audience.members)
    /\ fluidMembers # Keys(Get(audience.members))

====
